---- MODULE Spec2Model ----
(***************************************************************************)
(* Model of tui_sudoku: the puzzle engine (src/src/sudoku.rs) and the      *)
(* application state machine that drives it (src/src/app.rs, main.rs).     *)
(*                                                                         *)
(* Grids are functions [0..SIZE-1 -> [0..SIZE-1 -> 0..9]], indexed from 0  *)
(* as in the source.  The thread-local random number generator behind      *)
(* rand::rng() is a state that every shuffle advances; the seed it starts  *)
(* from is the nondeterministic input of a construction.                   *)
(***************************************************************************)
EXTENDS Integers, FiniteSets, Sequences, TLC

\* ---------------------------------------------------------------- bounds
\* Number of distinct seeds the random generator may start a construction from.
NumSeeds == 1
\* Number of distinct seeds a generator run on its own may start from.
NumGenSeeds == 6
\* Most non-fixed cells that hold a digit other than the solution's at once.
MaxWrong == 4
\* Most cells that hold a digit the player typed into the application which
\* conflicts with nothing and is not the solution's.
MaxWrongKeys == 0

\* ------------------------------------------------------ program constants
SIZE == 9
BOX_SIZE == 3
REMOVE_CAP == 70
GRID_WIDTH == 37
GRID_HEIGHT == 19

Difficulty == {"Easy", "Medium", "Hard"}
None == <<>>
Some(x) == <<x>>

Seeds == 0 .. (NumSeeds - 1)
Idx == 0 .. (SIZE - 1)
CellIdx == 0 .. (SIZE * SIZE - 1)

Min(a, b) == IF a < b THEN a ELSE b

\* usize::saturating_sub
saturating_sub(a, b) == IF a >= b THEN a - b ELSE 0

cells_to_keep(d) ==
  CASE d = "Easy" -> 45
    [] d = "Medium" -> 35
    [] d = "Hard" -> 25

\* ------------------------------------------------------------ randomness
\* One step of the generator behind rand::rng(): a 16-bit linear
\* congruential generator stands for the library's generator.
NextRng(rng) == (25173 * rng + 13849) % 65536

\* rng.random_range(..=i), drawn from the high bits of the new state
random_range(rng, i) == (rng \div 256) % (i + 1)

swap(arr, i, j) == [arr EXCEPT ![i] = arr[j], ![j] = arr[i]]

\* SliceRandom::shuffle: for i in (1..len).rev() { swap(i, random_range(..=i)) }
\* shuffle_step is one pass of that loop on [arr, i, rng].  shuffle_steps
\* takes 2^k passes, none once the loop is over (i < 1); it works on a
\* one-element set so that each intermediate array is a value.  2^7 passes
\* finish a shuffle of up to 129 elements.
shuffle_step(sh) ==
  IF sh.i < 1 THEN sh
  ELSE LET rng1 == NextRng(sh.rng)
       IN [arr |-> swap(sh.arr, sh.i, random_range(rng1, sh.i)),
           i |-> sh.i - 1,
           rng |-> rng1]

RECURSIVE shuffle_steps(_, _)
shuffle_steps(S, k) ==
  IF k = 0 THEN {shuffle_step(sh) : sh \in S}
  ELSE UNION {IF sh.i < 1 THEN {sh}
              ELSE shuffle_steps(shuffle_steps({sh}, k - 1), k - 1) :
                sh \in S}

shuffle(arr, len, rng) ==
  CHOOSE sh \in shuffle_steps({[arr |-> arr, i |-> len - 1, rng |-> rng]}, 7) :
    TRUE

\* ------------------------------------------------------------- Generator
EmptyGrid == [r \in Idx |-> [c \in Idx |-> 0]]

\* Generator::new: nums = [1..9] shuffled
Generator_new(rng) == shuffle([i \in Idx |-> i + 1], SIZE, rng)

\* find_empty that scans column by column
find_empty_column_major(grid) ==
  LET empties == {i \in CellIdx : grid[i % SIZE][i \div SIZE] = 0}
  IN IF empties = {} THEN None
     ELSE LET i == CHOOSE k \in empties : \A m \in empties : k <= m
          IN <<i % SIZE, i \div SIZE>>

\* Generator::find_empty: first empty cell in row-major order, or None
find_empty(grid) ==
  LET empties == {i \in CellIdx : grid[i \div SIZE][i % SIZE] = 0}
  IN IF empties = {} THEN None
     ELSE LET i == CHOOSE k \in empties : \A m \in empties : k <= m
          IN <<i \div SIZE, i % SIZE>>

\* is_safe that leaves out the scan of the column
is_safe_without_column(grid, r, c, num) ==
  LET start_row == r - (r % BOX_SIZE)
      start_col == c - (c % BOX_SIZE)
  IN /\ \A col \in Idx : grid[r][col] # num
     /\ \A row \in 0 .. (BOX_SIZE - 1) : \A col \in 0 .. (BOX_SIZE - 1) :
          grid[start_row + row][start_col + col] # num

\* is_safe that leaves out the scan of the 3x3 box
is_safe_without_box(grid, r, c, num) ==
  /\ \A col \in Idx : grid[r][col] # num
  /\ \A row \in Idx : grid[row][c] # num

\* Generator::is_safe: num absent from the row, the column and the box
is_safe(grid, r, c, num) ==
  LET start_row == r - (r % BOX_SIZE)
      start_col == c - (c % BOX_SIZE)
  IN /\ \A col \in Idx : grid[r][col] # num
     /\ \A row \in Idx : grid[row][c] # num
     /\ \A row \in 0 .. (BOX_SIZE - 1) : \A col \in 0 .. (BOX_SIZE - 1) :
          grid[start_row + row][start_col + col] # num

\* Generator::fill, one step at a time.  A generator in progress is
\*   grid, nums : the fields of Generator
\*   stack      : one frame [r, c, local_nums, i] per fill call that is inside
\*                its for loop, the innermost call last; i is the position of
\*                the loop in local_nums
\*   pc         : "call"  a fill call was made and starts its body
\*                "loop"  the innermost call is at the head of its for loop
\*                "ret"   a fill call has just returned result
\*                "done"  the call made by SudokuGrid::new has returned
\*   rng        : the state of the random generator
generator_start(seed) ==
  LET gen == Generator_new(seed)
  IN [grid |-> EmptyGrid, nums |-> gen.arr, stack |-> <<>>, rng |-> gen.rng,
      pc |-> "call", result |-> FALSE]

top(g) == g.stack[Len(g.stack)]
pop(g) == SubSeq(g.stack, 1, Len(g.stack) - 1)

\* fill is entered: find_empty, then either "Grid is full" or the shuffle
fill_enter(g) ==
  LET e == find_empty(g.grid)
  IN IF e = None
     THEN [g EXCEPT !.pc = "ret", !.result = TRUE]
     ELSE LET sh == shuffle(g.nums, SIZE, g.rng)
          IN [g EXCEPT !.stack = Append(@, [r |-> e[1], c |-> e[2],
                                            local_nums |-> sh.arr, i |-> 0]),
                       !.rng = sh.rng,
                       !.pc = "loop"]

\* fill that recurses without placing the digit
fill_try_without_placing(g) ==
  LET f == top(g)
      num == f.local_nums[f.i]
  IN IF is_safe(g.grid, f.r, f.c, num)
     THEN [g EXCEPT !.pc = "call"]
     ELSE [g EXCEPT !.stack[Len(g.stack)].i = f.i + 1]

\* one pass of "for &num in &local_nums": place num and recurse, or skip it
fill_try(g) ==
  LET f == top(g)
      num == f.local_nums[f.i]
  IN IF is_safe(g.grid, f.r, f.c, num)
     THEN [g EXCEPT !.grid[f.r][f.c] = num, !.pc = "call"]
     ELSE [g EXCEPT !.stack[Len(g.stack)].i = f.i + 1]

\* the loop is over: "No number worked for this cell"
fill_exhausted(g) ==
  [g EXCEPT !.stack = pop(g), !.pc = "ret", !.result = FALSE]

\* fill that returns what its first recursive call returned, without trying
\* the other candidates
fill_return_first_result(g) ==
  IF g.stack = <<>> THEN [g EXCEPT !.pc = "done"]
  ELSE [g EXCEPT !.stack = pop(g)]

\* fill that goes on to the next candidate without taking back the digit it
\* placed
fill_return_without_backtrack(g) ==
  IF g.stack = <<>> THEN [g EXCEPT !.pc = "done"]
  ELSE IF g.result THEN [g EXCEPT !.stack = pop(g)]
  ELSE LET f == top(g)
       IN [g EXCEPT !.stack[Len(g.stack)].i = f.i + 1,
                    !.pc = "loop"]

\* a call returned to its caller: "return true" or backtrack and go on
fill_return(g) ==
  IF g.stack = <<>> THEN [g EXCEPT !.pc = "done"]
  ELSE IF g.result THEN [g EXCEPT !.stack = pop(g)]
  ELSE LET f == top(g)
       IN [g EXCEPT !.grid[f.r][f.c] = 0,
                    !.stack[Len(g.stack)].i = f.i + 1,
                    !.pc = "loop"]

fill_step(g) ==
  CASE g.pc = "call" -> fill_enter(g)
    [] g.pc = "loop" -> IF top(g).i < SIZE THEN fill_try(g)
                        ELSE fill_exhausted(g)
    [] g.pc = "ret" -> fill_return(g)
    [] OTHER -> g

\* generator.fill() as SudokuGrid::new calls it: fill_step until "done".
\* fill_steps takes 2^k steps, none once the generator is done; it works on
\* a one-element set so that each intermediate generator is a value.  2^14
\* steps run every call of the model to its end.
RECURSIVE fill_steps(_, _)
fill_steps(G, k) ==
  IF k = 0 THEN {fill_step(g) : g \in G}
  ELSE UNION {IF g.pc = "done" THEN {g}
              ELSE fill_steps(fill_steps({g}, k - 1), k - 1) :
                g \in G}

fill(g) == CHOOSE h \in fill_steps({g}, 14) : TRUE

\* ------------------------------------------------------------ SudokuGrid
\* SudokuGrid::new, with the generator state the construction starts from.
\* remove_cells is its loop over the shuffled cells: the first
\* numbers_to_remove of them are emptied and marked not fixed.

\* remove_cells with a loop that runs once too often
remove_cells_once_more(solution, cells, numbers_to_remove) ==
  LET removed == {cells[count] : count \in 0 .. numbers_to_remove}
  IN [solution |-> solution,
      current |-> [r \in Idx |-> [c \in Idx |->
                     IF <<r, c>> \in removed THEN 0 ELSE solution[r][c]]],
      fixed |-> [r \in Idx |-> [c \in Idx |-> <<r, c>> \notin removed]]]

\* remove_cells that marks the cells not fixed and leaves their digits
remove_cells_keeping_digits(solution, cells, numbers_to_remove) ==
  LET removed == {cells[count] : count \in 0 .. (numbers_to_remove - 1)}
  IN [solution |-> solution,
      current |-> solution,
      fixed |-> [r \in Idx |-> [c \in Idx |-> <<r, c>> \notin removed]]]

remove_cells(solution, cells, numbers_to_remove) ==
  LET removed == {cells[count] : count \in 0 .. (numbers_to_remove - 1)}
  IN [solution |-> solution,
      current |-> [r \in Idx |-> [c \in Idx |->
                     IF <<r, c>> \in removed THEN 0 ELSE solution[r][c]]],
      fixed |-> [r \in Idx |-> [c \in Idx |-> <<r, c>> \notin removed]]]

numbers_to_remove(difficulty) ==
  Min(saturating_sub(SIZE * SIZE, cells_to_keep(difficulty)), REMOVE_CAP)

\* The solution that fill leaves and the shuffled vector of all coordinates
shuffled_cells(filled) ==
  CHOOSE b \in
    {[solution |-> filled.grid, cells |-> shuffled.arr] :
       shuffled \in {shuffle([i \in CellIdx |-> <<i \div SIZE, i % SIZE>>],
                             SIZE * SIZE, filled.rng)}} : TRUE

SudokuGrid_from(built, difficulty) ==
  remove_cells(built.solution, built.cells, numbers_to_remove(difficulty))

SudokuGrid_new(difficulty, seed) ==
  SudokuGrid_from(shuffled_cells(fill(generator_start(seed))), difficulty)

\* What the construction builds from a seed, and the grid a construction
\* returns, by seed and difficulty
Built(seed) ==
  CHOOSE b \in {shuffled_cells(filled) :
                  filled \in {fill(generator_start(seed))}} : TRUE

NewGrids(seed, difficulty) == SudokuGrid_from(Built(seed), difficulty)

\* SudokuGrid::is_valid_move that compares the cell with itself too
is_valid_move_with_self(s, r, c, num) ==
  IF num = 0 THEN TRUE
  ELSE LET start_row == r - (r % BOX_SIZE)
           start_col == c - (c % BOX_SIZE)
       IN /\ \A col \in Idx : s.current[r][col] # num
          /\ \A row \in Idx : s.current[row][c] # num
          /\ \A row \in 0 .. (BOX_SIZE - 1) : \A col \in 0 .. (BOX_SIZE - 1) :
               s.current[start_row + row][start_col + col] # num

\* SudokuGrid::is_valid_move
is_valid_move(s, r, c, num) ==
  IF num = 0 THEN TRUE
  ELSE LET start_row == r - (r % BOX_SIZE)
           start_col == c - (c % BOX_SIZE)
       IN /\ \A col \in Idx : ~(col # c /\ s.current[r][col] = num)
          /\ \A row \in Idx : ~(row # r /\ s.current[row][c] = num)
          /\ \A row \in 0 .. (BOX_SIZE - 1) : \A col \in 0 .. (BOX_SIZE - 1) :
               LET current_r == start_row + row
                   current_c == start_col + col
               IN ~((current_r # r \/ current_c # c)
                    /\ s.current[current_r][current_c] = num)

\* set_number that writes fixed cells too
set_number_ok_fixed_too(s, r, c, num) ==
  /\ r < SIZE /\ c < SIZE
  /\ num <= 9

\* set_number that takes any num
set_number_ok_any_num(s, r, c, num) ==
  /\ r < SIZE /\ c < SIZE
  /\ ~s.fixed[r][c]

\* set_number that takes num = 10 too
set_number_ok_up_to_ten(s, r, c, num) ==
  /\ r < SIZE /\ c < SIZE
  /\ ~s.fixed[r][c]
  /\ num <= 10

\* set_number that writes valid moves only
set_number_ok_valid_only(s, r, c, num) ==
  /\ r < SIZE /\ c < SIZE
  /\ ~s.fixed[r][c]
  /\ num <= 9
  /\ is_valid_move(s, r, c, num)

\* SudokuGrid::set_number: the value returned and the grid after the call
set_number_ok(s, r, c, num) ==
  /\ r < SIZE /\ c < SIZE
  /\ ~s.fixed[r][c]
  /\ num <= 9

\* set_number that writes num into solution
set_number_grid_into_solution(s, r, c, num) ==
  IF set_number_ok(s, r, c, num)
  THEN [s EXCEPT !.solution[r][c] = num]
  ELSE s

\* set_number that writes the cell of the transposed coordinates
set_number_grid_transposed(s, r, c, num) ==
  IF set_number_ok(s, r, c, num)
  THEN [s EXCEPT !.current[c][r] = num]
  ELSE s

set_number_grid(s, r, c, num) ==
  IF set_number_ok(s, r, c, num)
  THEN [s EXCEPT !.current[r][c] = num]
  ELSE s

\* is_solved that compares the filled cells only
is_solved_filled_only(s) ==
  \A r \in Idx : \A c \in Idx :
    s.current[r][c] = 0 \/ s.current[r][c] = s.solution[r][c]

\* SudokuGrid::is_solved
is_solved(s) == s.current = s.solution

\* SudokuGrid::is_fixed
is_fixed(s, r, c) == s.fixed[r][c]

\* SudokuGrid::get_cell
get_cell(s, r, c, show) ==
  LET val == IF show THEN s.solution[r][c] ELSE s.current[r][c]
  IN IF val = 0 THEN None ELSE Some(val)

\* ----------------------------------------------------------------- state
VARIABLES
  sudoku,                     \* App::sudoku: None or Some(SudokuGrid)
  cursor_pos,                 \* App::cursor_pos, <<r, c>>
  show_solution,              \* App::show_solution
  grid_screen_rect,           \* App::grid_screen_rect: None or Some(rect)
  state,                      \* App::state
  last_input_valid,           \* App::last_input_valid
  selected_difficulty_index,  \* App::selected_difficulty_index
  ret,                        \* value returned by the last SudokuGrid call
  gen                         \* the Generator while fill runs, else None

app_vars == <<cursor_pos, show_solution, grid_screen_rect, state,
              last_input_valid, selected_difficulty_index>>
vars == <<sudoku, cursor_pos, show_solution, grid_screen_rect, state,
          last_input_valid, selected_difficulty_index, ret, gen>>

\* App::new, field by field
App_new ==
  /\ cursor_pos = <<0, 0>>
  /\ show_solution = FALSE
  /\ grid_screen_rect = None
  /\ state = "SelectingDifficulty"
  /\ last_input_valid = TRUE
  /\ selected_difficulty_index = 1

\* ------------------------------------------------- callers of SudokuGrid
\* The non-fixed cells of s, by row-major index
open_cells(s) == {i \in CellIdx : ~s.fixed[i \div SIZE][i % SIZE]}

\* The last non-fixed cell that holds a digit (-1: none) and the first
\* non-fixed cell that is empty (SIZE * SIZE: none), in row-major order
last_filled(s) ==
  LET filled == {i \in open_cells(s) : s.current[i \div SIZE][i % SIZE] # 0}
  IN IF filled = {} THEN -1
     ELSE CHOOSE k \in filled : \A m \in filled : m <= k

first_empty(s) ==
  LET empties == {i \in open_cells(s) : s.current[i \div SIZE][i % SIZE] = 0}
  IN IF empties = {} THEN SIZE * SIZE
     ELSE CHOOSE k \in empties : \A m \in empties : k <= m

\* The writes a player makes on a SudokuGrid s, as <<<<r, c>>, num>>: digits
\* go into the non-fixed cells in row-major order; the last digit entered may
\* be replaced or cleared, and the next cell is filled only once the last
\* digit conflicts with nothing.  A digit that conflicts is entered only
\* while no other cell differs from the solution, and at most max_wrong
\* cells differ from the solution.
player_frontier(s) ==
  LET lf == last_filled(s)
      lf_valid == lf < 0 \/ is_valid_move(s, lf \div SIZE, lf % SIZE,
                                           s.current[lf \div SIZE][lf % SIZE])
  IN {i \in {lf} \cup (IF lf_valid THEN {first_empty(s)} ELSE {}) :
        i \in CellIdx}

player_writes(s, max_wrong) ==
  LET wrong == {i \in open_cells(s) :
                  /\ s.current[i \div SIZE][i % SIZE] # 0
                  /\ s.current[i \div SIZE][i % SIZE]
                       # s.solution[i \div SIZE][i % SIZE]}
      writes(i) ==
        {num \in 0 .. 9 :
           LET others == Cardinality(wrong \ {i})
           IN IF ~is_valid_move(s, i \div SIZE, i % SIZE, num)
              THEN others = 0
              ELSE IF num # 0 /\ num # s.solution[i \div SIZE][i % SIZE]
                   THEN others + 1 <= max_wrong
                   ELSE TRUE}
  IN UNION {{<<<<i \div SIZE, i % SIZE>>, num>> : num \in writes(i)} :
              i \in player_frontier(s)}

\* The calls made on a SudokuGrid s through its own interface: the writes
\* above, and calls that cannot write, which are out-of-range coordinates
\* and the first and the last fixed cell with the nums 0, 1, 9 and 10, and
\* the nums 10 and 255 on the cells the player writes.
player_calls(s, max_wrong) ==
  LET fx == CellIdx \ open_cells(s)
      probes == {i \in fx : (\A m \in fx : i <= m) \/ (\A m \in fx : m <= i)}
  IN ({<<SIZE, 0>>, <<0, SIZE>>, <<SIZE, SIZE>>} \X {0, 1, 9, 10})
       \cup {<<<<i \div SIZE, i % SIZE>>, num>> :
               i \in probes, num \in {0, 1, 9, 10}}
       \cup {<<<<i \div SIZE, i % SIZE>>, num>> :
               i \in player_frontier(s), num \in {10, 255}}
       \cup player_writes(s, max_wrong)

\* ------------------------------------------------------- SudokuGrid calls
set_number(r, c, num) ==
  /\ sudoku # None
  /\ sudoku' = Some(set_number_grid(sudoku[1], r, c, num))
  /\ ret' = Some(set_number_ok(sudoku[1], r, c, num))
  /\ UNCHANGED <<app_vars, gen>>

\* clear_number is set_number(r, c, 0)
clear_number(r, c) ==
  /\ sudoku # None
  /\ sudoku' = Some(set_number_grid(sudoku[1], r, c, 0))
  /\ ret' = Some(set_number_ok(sudoku[1], r, c, 0))
  /\ UNCHANGED <<app_vars, gen>>

\* A SudokuGrid right after SudokuGrid::new, driven through its own calls
InitGrid ==
  /\ \E seed \in Seeds : \E d \in Difficulty :
       sudoku = Some(NewGrids(seed, d))
  /\ App_new
  /\ ret = None
  /\ gen = None

NextGrid ==
  \/ \E call \in player_calls(sudoku[1], MaxWrong) :
       set_number(call[1][1], call[1][2], call[2])
  \/ \E call \in player_calls(sudoku[1], MaxWrong) :
       call[2] = 0 /\ clear_number(call[1][1], call[1][2])

SpecGrid == InitGrid /\ [][NextGrid]_vars

\* The same calls by a player who enters a digit other than the solution's
\* only where it conflicts, and replaces it before going on.
NextValid ==
  \/ \E call \in player_calls(sudoku[1], 0) :
       set_number(call[1][1], call[1][2], call[2])
  \/ \E call \in player_calls(sudoku[1], 0) :
       call[2] = 0 /\ clear_number(call[1][1], call[1][2])

SpecValid == InitGrid /\ [][NextValid]_vars

\* The calls that take &self: each returns a value and writes nothing.
call_is_valid_move(r, c, num) ==
  /\ sudoku # None
  /\ ret' = Some(is_valid_move(sudoku[1], r, c, num))
  /\ UNCHANGED <<sudoku, app_vars, gen>>

call_is_solved ==
  /\ sudoku # None
  /\ ret' = Some(is_solved(sudoku[1]))
  /\ UNCHANGED <<sudoku, app_vars, gen>>

\* get_cell returns an Option<u8>, the other calls a bool: its value is kept
\* in ret next to the name of the call.
call_get_cell(r, c, show) ==
  /\ sudoku # None
  /\ ret' = <<"get_cell", get_cell(sudoku[1], r, c, show)>>
  /\ UNCHANGED <<sudoku, app_vars, gen>>

call_is_fixed(r, c) ==
  /\ sudoku # None
  /\ ret' = Some(is_fixed(sudoku[1], r, c))
  /\ UNCHANGED <<sudoku, app_vars, gen>>

\* The cells a player reads: those written next, and the first and the last
\* fixed cell.
player_reads(s) ==
  LET fx == CellIdx \ open_cells(s)
  IN {<<i \div SIZE, i % SIZE>> :
        i \in player_frontier(s)
                \cup {i \in fx : (\A m \in fx : i <= m) \/ (\A m \in fx : m <= i)}}

\* Every call of the interface of SudokuGrid, by the careful player.
NextCalls ==
  \/ NextValid
  \/ \E p \in player_reads(sudoku[1]) : \E num \in 0 .. 9 :
       call_is_valid_move(p[1], p[2], num)
  \/ call_is_solved
  \/ \E p \in player_reads(sudoku[1]) : \E show \in BOOLEAN :
       call_get_cell(p[1], p[2], show)
  \/ \E p \in player_reads(sudoku[1]) : call_is_fixed(p[1], p[2])

SpecCalls == InitGrid /\ [][NextCalls]_vars

\* -------------------------------------------------- the generator, alone
\* Generator::new on an all-empty board, then generator.fill() step by step
FillEnter ==
  /\ gen # None /\ gen[1].pc = "call"
  /\ gen' = Some(fill_enter(gen[1]))
  /\ UNCHANGED <<sudoku, app_vars, ret>>

FillTry ==
  /\ gen # None /\ gen[1].pc = "loop" /\ top(gen[1]).i < SIZE
  /\ gen' = Some(fill_try(gen[1]))
  /\ UNCHANGED <<sudoku, app_vars, ret>>

FillExhausted ==
  /\ gen # None /\ gen[1].pc = "loop" /\ top(gen[1]).i >= SIZE
  /\ gen' = Some(fill_exhausted(gen[1]))
  /\ UNCHANGED <<sudoku, app_vars, ret>>

FillReturn ==
  /\ gen # None /\ gen[1].pc = "ret"
  /\ gen' = Some(fill_return(gen[1]))
  /\ UNCHANGED <<sudoku, app_vars, ret>>

InitGen ==
  /\ \E seed \in 0 .. (NumGenSeeds - 1) : gen = Some(generator_start(seed))
  /\ sudoku = None
  /\ App_new
  /\ ret = None

NextGen == FillEnter \/ FillTry \/ FillExhausted \/ FillReturn

SpecGen == InitGen /\ [][NextGen]_vars

\* fill runs on the thread that called it and waits for nothing: while a
\* step of it is left to take, it is taken.
SpecGenFair == SpecGen /\ WF_vars(NextGen)

\* ------------------------------------------------------------- App events

difficulties == <<"Easy", "Medium", "Hard">>

\* The Rect that ui::draw_game_ui centres in the grid area and stores with
\* set_grid_rect, on a terminal that the grid fits in.
centered_grid_rect == [x |-> 21, y |-> 5, width |-> GRID_WIDTH,
                       height |-> GRID_HEIGHT]

\* run_app draws before it polls for an event: while a game is shown the
\* draw stores the grid's Rect, so every handler sees the value drawn.
drawn ==
  IF state \in {"Running", "Solved"} THEN Some(centered_grid_rect)
  ELSE grid_screen_rect

\* An iteration of run_app's loop in which no event arrives.
draw ==
  /\ grid_screen_rect' = drawn
  /\ UNCHANGED <<sudoku, cursor_pos, show_solution, state, last_input_valid,
                 selected_difficulty_index, ret, gen>>

start_game(seed) ==
  /\ state = "SelectingDifficulty"
  /\ sudoku' = Some(NewGrids(seed, difficulties[selected_difficulty_index + 1]))
  /\ state' = "Running"
  /\ cursor_pos' = <<0, 0>>
  /\ show_solution' = FALSE
  /\ last_input_valid' = TRUE
  /\ grid_screen_rect' = None
  /\ UNCHANGED <<selected_difficulty_index, ret, gen>>

\* move_difficulty_selection without the step that makes a negative
\* remainder positive
move_difficulty_selection_without_wrap(delta) ==
  /\ state = "SelectingDifficulty"
  /\ LET num_options == Len(difficulties)
         sum == selected_difficulty_index + delta
     IN selected_difficulty_index' =
          IF sum < 0 THEN -((-sum) % num_options) ELSE sum % num_options
  /\ grid_screen_rect' = drawn
  /\ UNCHANGED <<sudoku, cursor_pos, show_solution, state, last_input_valid,
                 ret, gen>>

\* move_difficulty_selection that the arrow keys reach during a game too
move_difficulty_selection_in_any_state(delta) ==
  /\ LET num_options == Len(difficulties)
         sum == selected_difficulty_index + delta
         new_index == IF sum < 0 THEN -((-sum) % num_options)
                      ELSE sum % num_options
     IN selected_difficulty_index' =
          IF new_index < 0 THEN new_index + num_options ELSE new_index
  /\ grid_screen_rect' = drawn
  /\ UNCHANGED <<sudoku, cursor_pos, show_solution, state, last_input_valid,
                 ret, gen>>

move_difficulty_selection(delta) ==
  /\ state = "SelectingDifficulty"
  /\ LET num_options == Len(difficulties)
         sum == selected_difficulty_index + delta
         \* Rust's % truncates towards zero: a negative sum keeps its sign
         new_index == IF sum < 0 THEN -((-sum) % num_options)
                      ELSE sum % num_options
     IN selected_difficulty_index' =
          IF new_index < 0 THEN new_index + num_options ELSE new_index
  /\ grid_screen_rect' = drawn
  /\ UNCHANGED <<sudoku, cursor_pos, show_solution, state, last_input_valid,
                 ret, gen>>

\* return_to_difficulty_selection that keeps the SudokuGrid
return_to_difficulty_selection_keeping_grid ==
  /\ state \in {"Running", "Solved"}
  /\ state' = "SelectingDifficulty"
  /\ grid_screen_rect' = None
  /\ UNCHANGED <<sudoku, cursor_pos, show_solution, last_input_valid,
                 selected_difficulty_index, ret, gen>>

return_to_difficulty_selection ==
  /\ state \in {"Running", "Solved"}
  /\ sudoku' = None
  /\ state' = "SelectingDifficulty"
  /\ grid_screen_rect' = None
  /\ UNCHANGED <<cursor_pos, show_solution, last_input_valid,
                 selected_difficulty_index, ret, gen>>

\* The cell a left click at (screen_col, screen_row) selects, or the cursor
\* where it is when the click is on a border, a separator or outside.
clicked_pos(pos, rect, screen_col, screen_row) ==
  IF rect = None THEN pos
  ELSE LET grid_rect == rect[1]
           right == grid_rect.x + grid_rect.width
           bottom == grid_rect.y + grid_rect.height
       IN IF /\ screen_col > grid_rect.x
             /\ screen_col < right - 1
             /\ screen_row > grid_rect.y
             /\ screen_row < bottom - 1
          THEN LET relative_col == screen_col - (grid_rect.x + 1)
                   relative_row == screen_row - (grid_rect.y + 1)
                   grid_c == relative_col \div 4
                   grid_r == relative_row \div 2
                   clicked_on_cell_col == relative_col % 4 # 3
                   clicked_on_cell_row == relative_row % 2 = 0
               IN IF /\ clicked_on_cell_col /\ clicked_on_cell_row
                     /\ grid_r < SIZE /\ grid_c < SIZE
                  THEN <<grid_r, grid_c>>
                  ELSE pos
          ELSE pos

handle_mouse_click(screen_col, screen_row) ==
  /\ cursor_pos' = IF state # "Running" THEN cursor_pos
                   ELSE clicked_pos(cursor_pos, drawn, screen_col, screen_row)
  /\ grid_screen_rect' = drawn
  /\ UNCHANGED <<sudoku, show_solution, state, last_input_valid,
                 selected_difficulty_index, ret, gen>>

\* move_cursor whose subtraction stops at 0
moved_saturating(x, d) ==
  IF d > 0 THEN (x + d) % SIZE
  ELSE IF d < 0 THEN saturating_sub(x, -d)
  ELSE x

\* One coordinate of move_cursor: d is -1, 0 or 1.
moved(x, d) ==
  IF d > 0 THEN (x + d) % SIZE
  ELSE IF d < 0
       THEN LET stepped == IF x >= -d THEN x - (-d) ELSE SIZE - ((-d) % SIZE)
            IN IF stepped = SIZE THEN 0 ELSE stepped
       ELSE x

moved_pos(pos, dr, dc) == <<moved(pos[1], dr), moved(pos[2], dc)>>

\* move_cursor that no test of the state keeps from a solved puzzle
move_cursor_in_any_state(dr, dc) ==
  /\ state \in {"Running", "Solved"}
  /\ cursor_pos' = moved_pos(cursor_pos, dr, dc)
  /\ grid_screen_rect' = drawn
  /\ UNCHANGED <<sudoku, show_solution, state, last_input_valid,
                 selected_difficulty_index, ret, gen>>

move_cursor(dr, dc) ==
  /\ state \in {"Running", "Solved"}
  /\ cursor_pos' = IF state # "Running" THEN cursor_pos
                   ELSE moved_pos(cursor_pos, dr, dc)
  /\ grid_screen_rect' = drawn
  /\ UNCHANGED <<sudoku, show_solution, state, last_input_valid,
                 selected_difficulty_index, ret, gen>>

\* set_current_cell that asks is_solved before it writes the digit
set_current_cell_solved_before_write(num) ==
  /\ state \in {"Running", "Solved"}
  /\ grid_screen_rect' = drawn
  /\ UNCHANGED <<cursor_pos, show_solution, selected_difficulty_index, ret,
                 gen>>
  /\ IF state # "Running"
     THEN UNCHANGED <<sudoku, state, last_input_valid>>
     ELSE IF sudoku = None
     THEN last_input_valid' = FALSE /\ UNCHANGED <<sudoku, state>>
     ELSE LET r == cursor_pos[1]
              c == cursor_pos[2]
          IN IF is_fixed(sudoku[1], r, c)
             THEN last_input_valid' = FALSE /\ UNCHANGED <<sudoku, state>>
             ELSE IF num \in 1 .. 9
             THEN /\ last_input_valid' = is_valid_move(sudoku[1], r, c, num)
                  /\ sudoku' = Some(set_number_grid(sudoku[1], r, c, num))
                  /\ state' = IF is_solved(sudoku[1]) THEN "Solved" ELSE state
             ELSE last_input_valid' = FALSE /\ UNCHANGED <<sudoku, state>>

\* set_current_cell that is not kept from a solved puzzle and that derives
\* the state from is_solved after each write
set_current_cell_in_any_state(num) ==
  /\ state \in {"Running", "Solved"}
  /\ grid_screen_rect' = drawn
  /\ UNCHANGED <<cursor_pos, show_solution, selected_difficulty_index, ret,
                 gen>>
  /\ IF sudoku = None
     THEN last_input_valid' = FALSE /\ UNCHANGED <<sudoku, state>>
     ELSE LET r == cursor_pos[1]
              c == cursor_pos[2]
          IN IF is_fixed(sudoku[1], r, c)
             THEN last_input_valid' = FALSE /\ UNCHANGED <<sudoku, state>>
             ELSE IF num \in 1 .. 9
             THEN /\ last_input_valid' = is_valid_move(sudoku[1], r, c, num)
                  /\ sudoku' = Some(set_number_grid(sudoku[1], r, c, num))
                  /\ state' = IF is_solved(set_number_grid(sudoku[1], r, c, num))
                              THEN "Solved" ELSE "Running"
             ELSE last_input_valid' = FALSE /\ UNCHANGED <<sudoku, state>>

\* set_current_cell that records whether set_number wrote the digit
set_current_cell_valid_if_written(num) ==
  /\ state \in {"Running", "Solved"}
  /\ grid_screen_rect' = drawn
  /\ UNCHANGED <<cursor_pos, show_solution, selected_difficulty_index, ret,
                 gen>>
  /\ IF state # "Running"
     THEN UNCHANGED <<sudoku, state, last_input_valid>>
     ELSE IF sudoku = None
     THEN last_input_valid' = FALSE /\ UNCHANGED <<sudoku, state>>
     ELSE LET r == cursor_pos[1]
              c == cursor_pos[2]
          IN IF is_fixed(sudoku[1], r, c)
             THEN last_input_valid' = FALSE /\ UNCHANGED <<sudoku, state>>
             ELSE IF num \in 1 .. 9
             THEN /\ last_input_valid' = set_number_ok(sudoku[1], r, c, num)
                  /\ sudoku' = Some(set_number_grid(sudoku[1], r, c, num))
                  /\ state' = IF is_solved(set_number_grid(sudoku[1], r, c, num))
                              THEN "Solved" ELSE state
             ELSE last_input_valid' = FALSE /\ UNCHANGED <<sudoku, state>>

set_current_cell(num) ==
  /\ state \in {"Running", "Solved"}
  /\ grid_screen_rect' = drawn
  /\ UNCHANGED <<cursor_pos, show_solution, selected_difficulty_index, ret,
                 gen>>
  /\ IF state # "Running"
     THEN UNCHANGED <<sudoku, state, last_input_valid>>
     ELSE IF sudoku = None
     THEN last_input_valid' = FALSE /\ UNCHANGED <<sudoku, state>>
     ELSE LET r == cursor_pos[1]
              c == cursor_pos[2]
          IN IF is_fixed(sudoku[1], r, c)
             THEN last_input_valid' = FALSE /\ UNCHANGED <<sudoku, state>>
             ELSE IF num \in 1 .. 9
             THEN /\ last_input_valid' = is_valid_move(sudoku[1], r, c, num)
                  /\ sudoku' = Some(set_number_grid(sudoku[1], r, c, num))
                  /\ state' = IF is_solved(set_number_grid(sudoku[1], r, c, num))
                              THEN "Solved" ELSE state
             ELSE last_input_valid' = FALSE /\ UNCHANGED <<sudoku, state>>

clear_current_cell ==
  /\ state \in {"Running", "Solved"}
  /\ grid_screen_rect' = drawn
  /\ UNCHANGED <<cursor_pos, show_solution, state, selected_difficulty_index,
                 ret, gen>>
  /\ IF state # "Running"
     THEN UNCHANGED <<sudoku, last_input_valid>>
     ELSE IF sudoku = None
     THEN last_input_valid' = FALSE /\ UNCHANGED sudoku
     ELSE LET r == cursor_pos[1]
              c == cursor_pos[2]
          IN /\ sudoku' = Some(set_number_grid(sudoku[1], r, c, 0))
             /\ last_input_valid' = set_number_ok(sudoku[1], r, c, 0)

\* toggle_solution that marks the last input as not valid
toggle_solution_clearing_validity ==
  /\ state \in {"Running", "Solved"}
  /\ grid_screen_rect' = drawn
  /\ IF sudoku # None
     THEN show_solution' = ~show_solution /\ last_input_valid' = FALSE
     ELSE UNCHANGED <<show_solution, last_input_valid>>
  /\ UNCHANGED <<sudoku, cursor_pos, state, selected_difficulty_index, ret,
                 gen>>

toggle_solution ==
  /\ state \in {"Running", "Solved"}
  /\ grid_screen_rect' = drawn
  /\ IF sudoku # None
     THEN show_solution' = ~show_solution /\ last_input_valid' = TRUE
     ELSE UNCHANGED <<show_solution, last_input_valid>>
  /\ UNCHANGED <<sudoku, cursor_pos, state, selected_difficulty_index, ret,
                 gen>>

\* ------------------------------------------------------------ the player
\* The player at the application types by the rule of player_writes, with at
\* most MaxWrongKeys cells wrong.  While no digit has been entered the cursor
\* goes anywhere and the solution is looked at; after that the cursor is
\* moved towards the cells the rule writes next.  Events that the state
\* ignores arrive at any time.

untouched(s) == last_filled(s) < 0

distance(p, i) ==
  LET dr == p[1] - (i \div SIZE)
      dc == p[2] - (i % SIZE)
  IN (IF dr < 0 THEN -dr ELSE dr) + (IF dc < 0 THEN -dc ELSE dc)

\* The positions the player lets an event put the cursor on.
player_goes(S) ==
  IF state # "Running" THEN S
  ELSE IF untouched(sudoku[1]) THEN S
  ELSE LET frontier == player_frontier(sudoku[1])
       IN {e \in S : \/ e[2] = cursor_pos
                     \/ \E i \in frontier :
                          distance(e[2], i) < distance(cursor_pos, i)}

player_moves ==
  {e[1] : e \in player_goes({<<d, moved_pos(cursor_pos, d[1], d[2])>> :
                               d \in {<<-1, 0>>, <<1, 0>>, <<0, -1>>, <<0, 1>>}})}

\* Where the player clicks: the four corner cells and the middle cell of the
\* grid, the four borders, a column separator and a row separator.
ClickPoints ==
  LET x == centered_grid_rect.x
      y == centered_grid_rect.y
  IN {<<x + 1, y + 1>>, <<x + GRID_WIDTH - 2, y + 1>>,
      <<x + 1, y + GRID_HEIGHT - 2>>,
      <<x + GRID_WIDTH - 2, y + GRID_HEIGHT - 2>>,
      <<x + 18, y + 9>>,
      <<x, y + 1>>, <<x + 1, y>>,
      <<x + GRID_WIDTH - 1, y + 1>>, <<x + 1, y + GRID_HEIGHT - 1>>,
      <<x + 4, y + 1>>, <<x + 1, y + 2>>}

player_clicks ==
  {e[1] : e \in player_goes({<<p, clicked_pos(cursor_pos, drawn, p[1], p[2])>> :
                               p \in ClickPoints})}

\* The digits the player types at the cursor, 0 for the keys that clear.
player_types ==
  IF state # "Running" THEN 0 .. 9
  ELSE IF is_fixed(sudoku[1], cursor_pos[1], cursor_pos[2]) THEN 0 .. 9
  ELSE {w[2] : w \in {w \in player_writes(sudoku[1], MaxWrongKeys) :
                        w[1] = cursor_pos}}

player_looks == IF state # "Running" THEN TRUE ELSE untouched(sudoku[1])

InitApp ==
  /\ sudoku = None
  /\ App_new
  /\ ret = None
  /\ gen = None

NextApp ==
  \/ draw
  \/ \E delta \in {-1, 1} : move_difficulty_selection(delta)
  \/ \E seed \in Seeds : start_game(seed)
  \/ \E d \in player_moves : move_cursor(d[1], d[2])
  \/ \E p \in player_clicks : handle_mouse_click(p[1], p[2])
  \/ \E num \in player_types \ {0} : set_current_cell(num)
  \/ 0 \in player_types /\ clear_current_cell
  \/ player_looks /\ toggle_solution
  \/ return_to_difficulty_selection

SpecApp == InitApp /\ [][NextApp]_vars

\* ------------------------------------------------------ Sudoku constraint

Cells == Idx \X Idx

row_of(r) == {<<r, c>> : c \in Idx}
col_of(c) == {<<r, c>> : r \in Idx}
box_of(r, c) ==
  {<<r - (r % BOX_SIZE) + i, c - (c % BOX_SIZE) + j>> :
     i \in 0 .. (BOX_SIZE - 1), j \in 0 .. (BOX_SIZE - 1)}

\* The rows, the columns and the 3x3 boxes, each as a set of coordinates
Units ==
  {row_of(r) : r \in Idx}
    \cup {col_of(c) : c \in Idx}
    \cup {box_of(BOX_SIZE * br, BOX_SIZE * bc) :
            br \in 0 .. (BOX_SIZE - 1), bc \in 0 .. (BOX_SIZE - 1)}

\* The other coordinates of the row, the column and the box of p
Peers(p) == (row_of(p[1]) \cup col_of(p[2]) \cup box_of(p[1], p[2])) \ {p}

every_digit_once(grid, unit) ==
  \A d \in 1 .. SIZE : Cardinality({p \in unit : grid[p[1]][p[2]] = d}) = 1

no_repeated_digit(grid, unit) ==
  \A p \in unit : \A q \in unit :
    (p # q /\ grid[p[1]][p[2]] # 0) => grid[p[1]][p[2]] # grid[q[1]][q[2]]

complete(grid) == \A p \in Cells : grid[p[1]][p[2]] # 0

consistent(grid) == \A unit \in Units : no_repeated_digit(grid, unit)

count_fixed(s) == Cardinality({p \in Cells : s.fixed[p[1]][p[2]]})

wrong_cells(s) ==
  {p \in Cells : /\ s.current[p[1]][p[2]] # 0
                 /\ s.current[p[1]][p[2]] # s.solution[p[1]][p[2]]}

\* ----------------------------------------------------------------- claims

\* C1: when Generator::fill has run to its end on the empty board, every
\* row, every column and every 3x3 box of the grid holds each digit 1..9
\* exactly once.
C1_SolutionValid ==
  (gen # None /\ gen[1].pc = "done") =>
    \A unit \in Units : every_digit_once(gen[1].grid, unit)

\* A run of fill has ended and reported success.
C1_FillDone == gen # None /\ gen[1].pc = "done" /\ gen[1].result

\* C2: after any sequence of set_number and clear_number calls on a
\* constructed grid, every fixed cell still holds its solution digit.
C2_ClueInvariant ==
  sudoku # None =>
    \A p \in Cells :
      sudoku[1].fixed[p[1]][p[2]] =>
        sudoku[1].current[p[1]][p[2]] = sudoku[1].solution[p[1]][p[2]]

\* A call has been refused while a cell holds a digit that is not the
\* solution's.
C2_RefusedAmongWrongDigits ==
  /\ sudoku # None
  /\ ret = Some(FALSE)
  /\ wrong_cells(sudoku[1]) # {}

\* C3: set_number(r, c, num) returns false and leaves solution, current and
\* fixed as they are when r or c is out of range, when the cell is fixed and
\* when num > 9; evaluating the call raises no error.
C3_SetNumberRefuses ==
  sudoku # None =>
    \A r \in 0 .. SIZE : \A c \in 0 .. SIZE : \A num \in 0 .. (SIZE + 1) :
      (IF r >= SIZE \/ c >= SIZE THEN TRUE
       ELSE sudoku[1].fixed[r][c] \/ num > 9) =>
        /\ ~set_number_ok(sudoku[1], r, c, num)
        /\ set_number_grid(sudoku[1], r, c, num) = sudoku[1]

\* A call has been refused on a grid the player has written to.
C3_RefusedAfterWrites ==
  /\ sudoku # None
  /\ ret = Some(FALSE)
  /\ ~untouched(sudoku[1])
  /\ wrong_cells(sudoku[1]) = {}

\* C4: on every in-range cell that is not fixed, set_number(r, c, num) with
\* num in 0..9 returns true and leaves num in current[r][c], whether or not
\* is_valid_move(r, c, num) holds.
C4_NonFixedMutable ==
  sudoku # None =>
    \A p \in Cells :
      ~sudoku[1].fixed[p[1]][p[2]] =>
        \A num \in 0 .. 9 :
          /\ set_number_ok(sudoku[1], p[1], p[2], num)
          /\ set_number_grid(sudoku[1], p[1], p[2], num).current[p[1]][p[2]]
               = num

\* A call has returned true and a cell holds a digit that is_valid_move
\* rejects.
C4_ConflictingDigitWritten ==
  /\ sudoku # None
  /\ ret = Some(TRUE)
  /\ \E p \in Cells :
       /\ ~sudoku[1].fixed[p[1]][p[2]]
       /\ sudoku[1].current[p[1]][p[2]] # 0
       /\ ~is_valid_move(sudoku[1], p[1], p[2], sudoku[1].current[p[1]][p[2]])

\* C5: is_valid_move(r, c, num) is false exactly when num # 0 and num stands
\* at another coordinate of row r, of column c or of the 3x3 box of (r, c);
\* num = 0 is always valid and the digit stored at (r, c) is not compared
\* with itself.
C5_ValidationSymmetry ==
  sudoku # None =>
    \A p \in Cells : \A num \in 0 .. 9 :
      is_valid_move(sudoku[1], p[1], p[2], num)
        = ~(num # 0 /\ \E q \in Peers(p) : sudoku[1].current[q[1]][q[2]] = num)

\* A cell the player wrote holds a digit that is valid where it stands, and
\* another digit would conflict there.
C5_StoredDigitValid ==
  /\ sudoku # None
  /\ \E p \in Cells :
       /\ ~sudoku[1].fixed[p[1]][p[2]]
       /\ sudoku[1].current[p[1]][p[2]] # 0
       /\ is_valid_move(sudoku[1], p[1], p[2], sudoku[1].current[p[1]][p[2]])
       /\ \E num \in 1 .. 9 : ~is_valid_move(sudoku[1], p[1], p[2], num)

\* C6 as amended: whenever is_solved() holds, every cell of current is
\* filled and no row, column or 3x3 box of current repeats a digit.
C6_SolvedIsCompleteConsistent ==
  sudoku # None =>
    (is_solved(sudoku[1]) =>
       complete(sudoku[1].current) /\ consistent(sudoku[1].current))

\* The player has solved the puzzle.
C6_Solved == sudoku # None /\ is_solved(sudoku[1]) /\ ret # None

\* C6 as stated: is_solved() holds iff every cell of current is filled and
\* no row, column or 3x3 box of current repeats a digit.
C6_SolvedIffCompleteConsistent ==
  sudoku # None =>
    (is_solved(sudoku[1])
       <=> (complete(sudoku[1].current) /\ consistent(sudoku[1].current)))

\* set_number(r, c, solution[r][c]) called on the cells in the order of
\* their index, upwards (d = 1) or downwards (d = -1), on every cell that is
\* not fixed.  An e is the grid so far, the index i of the next cell and
\* whether every call so far returned true.
enter_solution_step(e, d) ==
  IF e.i \notin CellIdx THEN e
  ELSE LET r == e.i \div SIZE
           c == e.i % SIZE
           s == e.grid
       IN IF s.fixed[r][c] THEN [e EXCEPT !.i = e.i + d]
          ELSE [grid |-> set_number_grid(s, r, c, s.solution[r][c]),
                i |-> e.i + d,
                ok |-> e.ok /\ set_number_ok(s, r, c, s.solution[r][c])]

\* 2^k steps of it
RECURSIVE enter_solution_steps(_, _, _)
enter_solution_steps(E, d, k) ==
  IF k = 0 THEN {enter_solution_step(e, d) : e \in E}
  ELSE UNION {IF e.i \notin CellIdx THEN {e}
              ELSE enter_solution_steps(enter_solution_steps({e}, d, k - 1),
                                        d, k - 1) : e \in E}

enter_solution(s) ==
  enter_solution_steps({[grid |-> s, i |-> 0, ok |-> TRUE]}, 1, 7)
    \cup enter_solution_steps({[grid |-> s, i |-> SIZE * SIZE - 1, ok |-> TRUE]},
                              -1, 7)

\* C7: from every state reached by mutation calls, set_number(r, c,
\* solution[r][c]) called once on every non-fixed cell, in row-major order
\* and in the reverse of it, returns true each time and ends in a grid with
\* is_solved(); and is_solved() is false while current has an empty cell.
C7_SolutionSolves ==
  sudoku # None =>
    /\ \A e \in enter_solution(sudoku[1]) :
         e.i \notin CellIdx /\ e.ok /\ is_solved(e.grid)
    /\ ~complete(sudoku[1].current) => ~is_solved(sudoku[1])

\* The last call wrote a cell, and the grid holds a digit that is not the
\* solution's and an empty cell.
C7_WrongAndEmptyCells ==
  /\ sudoku # None
  /\ ret = Some(TRUE)
  /\ wrong_cells(sudoku[1]) # {}
  /\ ~complete(sudoku[1].current)

\* C8: right after SudokuGrid::new(difficulty), 45 cells are fixed for
\* Easy, 35 for Medium and 25 for Hard, the other cells of the 81 are not
\* fixed, the cap of 70 removals takes nothing from the number removed, and
\* at least 11 cells are fixed.
C8_RemovalCount ==
  (sudoku # None /\ ret = None) =>
    \A seed \in Seeds : \A d \in Difficulty :
      sudoku[1] = NewGrids(seed, d) =>
        LET target == CASE d = "Easy" -> 45
                        [] d = "Medium" -> 35
                        [] d = "Hard" -> 25
        IN /\ count_fixed(sudoku[1]) = target
           /\ Cardinality(open_cells(sudoku[1])) = 81 - target
           /\ numbers_to_remove(d) = 81 - target
           /\ count_fixed(sudoku[1]) >= 11

\* A Hard grid has just been constructed.
C8_HardConstructed ==
  /\ sudoku # None
  /\ ret = None
  /\ \E seed \in Seeds : sudoku[1] = NewGrids(seed, "Hard")

\* C9: right after SudokuGrid::new, every fixed cell holds its solution
\* digit, which is not 0, every other cell holds 0, and the coordinates the
\* construction removed are pairwise distinct.
C9_ConstructionPostcondition ==
  (sudoku # None /\ ret = None) =>
    /\ \A p \in Cells :
         IF sudoku[1].fixed[p[1]][p[2]]
         THEN /\ sudoku[1].current[p[1]][p[2]] = sudoku[1].solution[p[1]][p[2]]
              /\ sudoku[1].current[p[1]][p[2]] # 0
         ELSE sudoku[1].current[p[1]][p[2]] = 0
    /\ \A seed \in Seeds : \A d \in Difficulty :
         sudoku[1] = NewGrids(seed, d) =>
           LET cells == Built(seed).cells
           IN \A i \in 0 .. (numbers_to_remove(d) - 1) :
                \A j \in 0 .. (numbers_to_remove(d) - 1) :
                  i # j => cells[i] # cells[j]

\* A Medium grid has just been constructed.
C9_MediumConstructed ==
  /\ sudoku # None
  /\ ret = None
  /\ \E seed \in Seeds : sudoku[1] = NewGrids(seed, "Medium")

\* C10: while a puzzle exists, after every event the application handles,
\* its state is Solved iff is_solved() holds.
C10_SolvedIffIsSolved ==
  sudoku # None => (state = "Solved" <=> is_solved(sudoku[1]))

\* The player has typed the last digit of the puzzle.
C10_AppSolved == sudoku # None /\ state = "Solved" /\ is_solved(sudoku[1])

\* C11: once the state is Solved, every event leaves it Solved with the same
\* SudokuGrid or leaves SelectingDifficulty with no SudokuGrid; the state
\* becomes Running only from SelectingDifficulty with no SudokuGrid, and
\* then holds a SudokuGrid as SudokuGrid::new leaves it, with no digit
\* entered.
C11_SolvedIsOneWay ==
  [][/\ state = "Solved" =>
          \/ state' = "Solved" /\ sudoku' = sudoku
          \/ state' = "SelectingDifficulty" /\ sudoku' = None
     /\ (state # "Running" /\ state' = "Running") =>
          /\ state = "SelectingDifficulty"
          /\ sudoku = None
          /\ sudoku' # None
          /\ \A p \in Cells :
               sudoku'[1].current[p[1]][p[2]] =
                 IF sudoku'[1].fixed[p[1]][p[2]]
                 THEN sudoku'[1].solution[p[1]][p[2]] ELSE 0]_vars

\* The solved puzzle is shown with its solution: an event was handled in
\* Solved.
C11_SolvedAndLookedAt ==
  /\ state = "Solved"
  /\ sudoku # None
  /\ show_solution
  /\ grid_screen_rect # None

\* C12: started on the all-empty board, the fill call made by
\* SudokuGrid::new comes to its end, and it ends returning true with no empty
\* cell in the grid.
C12_GenerationSucceeds ==
  <>(/\ gen # None
     /\ gen[1].pc = "done"
     /\ gen[1].result
     /\ find_empty(gen[1].grid) = None)

\* The outermost fill call has returned and every frame is gone.
C12_FillReturned ==
  /\ gen # None
  /\ gen[1].pc = "done"
  /\ gen[1].stack = <<>>
  /\ complete(gen[1].grid)

\* C13: no call of set_number, clear_number, is_valid_move, is_solved,
\* get_cell or is_fixed changes solution or fixed, a call changes at most one
\* cell of current, and set_number(r, c, num) leaves solution, fixed and
\* every cell of current other than (r, c) as they were, for every r, c and
\* num, in range or not.
C13_MutationFrame ==
  /\ [][sudoku # None =>
          /\ sudoku' # None
          /\ sudoku'[1].solution = sudoku[1].solution
          /\ sudoku'[1].fixed = sudoku[1].fixed
          /\ \/ sudoku'[1].current = sudoku[1].current
             \/ Cardinality({p \in Cells : sudoku'[1].current[p[1]][p[2]]
                                             # sudoku[1].current[p[1]][p[2]]})
                  = 1]_vars
  /\ [](sudoku # None =>
          \A r \in 0 .. SIZE : \A c \in 0 .. SIZE : \A num \in {0, 5, 10} :
            LET after == set_number_grid(sudoku[1], r, c, num)
            IN /\ after.solution = sudoku[1].solution
               /\ after.fixed = sudoku[1].fixed
               /\ IF r < SIZE /\ c < SIZE
                  THEN [after.current EXCEPT ![r][c] = sudoku[1].current[r][c]]
                         = sudoku[1].current
                  ELSE after.current = sudoku[1].current)

\* get_cell has returned a digit from a grid the player has written to.
C13_ReadAfterWrites ==
  /\ sudoku # None
  /\ ~untouched(sudoku[1])
  /\ Len(ret) = 2
  /\ ret[2] # None

\* C14: in every reachable state every cell of current holds a value in
\* 0..9, whatever u8 values set_number was called with.
C14_CurrentInRange ==
  sudoku # None =>
    \A p \in Cells : sudoku[1].current[p[1]][p[2]] \in 0 .. 9

\* A call has been refused on a grid in which the player has entered a 9.
C14_RefusedNextToNine ==
  /\ sudoku # None
  /\ ret = Some(FALSE)
  /\ \E p \in Cells :
       ~sudoku[1].fixed[p[1]][p[2]] /\ sudoku[1].current[p[1]][p[2]] = 9

\* The fill call that a generator g with pc = "call" is about to start, run
\* to its return: fill_step until a call returns to the depth of g's stack.
\* fill_call_steps takes 2^k steps, none once that call has returned.
fill_call_returned(h, depth) ==
  h.pc = "done" \/ (h.pc = "ret" /\ Len(h.stack) <= depth)

RECURSIVE fill_call_steps(_, _, _)
fill_call_steps(G, depth, k) ==
  IF k = 0
  THEN {IF fill_call_returned(h, depth) THEN h ELSE fill_step(h) : h \in G}
  ELSE UNION {IF fill_call_returned(h, depth) THEN {h}
              ELSE fill_call_steps(fill_call_steps({h}, depth, k - 1),
                                   depth, k - 1) :
                h \in G}

fill_call(g) == fill_call_steps({g}, Len(g.stack), 14)

\* C15: every call of fill, the outermost and the recursive ones, that
\* returns false leaves the grid exactly as it was when the call was
\* entered, and every call that returns true leaves every cell that was
\* filled at entry as it was.
C15_BacktrackingRestores ==
  (gen # None /\ gen[1].pc = "call") =>
    \A h \in fill_call(gen[1]) :
      /\ fill_call_returned(h, Len(gen[1].stack))
      /\ IF h.result
         THEN \A p \in Cells :
                gen[1].grid[p[1]][p[2]] # 0 =>
                  h.grid[p[1]][p[2]] = gen[1].grid[p[1]][p[2]]
         ELSE h.grid = gen[1].grid

\* A recursive call of fill has just returned false to a caller that is
\* itself a recursive call.
C15_RecursiveCallFailed ==
  /\ gen # None
  /\ gen[1].pc = "ret"
  /\ ~gen[1].result
  /\ Len(gen[1].stack) >= 2

\* C16: at every step of generation no digit stands twice in a row, a
\* column or a 3x3 box of the grid, the filled cells are the first n cells
\* in row-major order for some n, and the k-th active fill call works on the
\* k-th cell in row-major order.
C16_ConflictFreePrefix ==
  gen # None =>
    /\ consistent(gen[1].grid)
    /\ \E n \in 0 .. (SIZE * SIZE) :
         \A i \in CellIdx : (gen[1].grid[i \div SIZE][i % SIZE] # 0) <=> (i < n)
    /\ \A k \in 1 .. Len(gen[1].stack) :
         gen[1].stack[k].r * SIZE + gen[1].stack[k].c = k - 1

\* A fill call below the first row is at a later candidate of its loop.
C16_DeepCallRetries ==
  /\ gen # None
  /\ gen[1].pc = "loop"
  /\ Len(gen[1].stack) > SIZE
  /\ top(gen[1]).i > 0

\* The number of fill calls that are active at once: the calls inside their
\* loop, and the call that was just made and has not yet looked for an empty
\* cell.
active_fill_calls(g) == Len(g.stack) + (IF g.pc = "call" THEN 1 ELSE 0)

\* C17 as amended: during generation at most 82 fill calls are active at
\* once, of which at most 81 are inside their loop, one per cell; the 82nd
\* is the call that finds no empty cell.
C17_DepthAtMost82 ==
  gen # None =>
    /\ active_fill_calls(gen[1]) <= SIZE * SIZE + 1
    /\ Len(gen[1].stack) <= SIZE * SIZE
    /\ active_fill_calls(gen[1]) = SIZE * SIZE + 1 =>
         find_empty(gen[1].grid) = None

\* The call that finds the grid full has been made while 81 calls wait for
\* it.
C17_CallOnFullGrid ==
  /\ gen # None
  /\ gen[1].pc = "call"
  /\ Len(gen[1].stack) = SIZE * SIZE
  /\ complete(gen[1].grid)

\* C17 as stated: during generation never more than 81 fill calls are active
\* at once.
C17_DepthAtMost81 ==
  gen # None => active_fill_calls(gen[1]) <= SIZE * SIZE

\* C18: on every grid a player reaches, for every empty cell (r, c) and
\* every num in 1..9, Generator::is_safe(r, c, num) on the grid equals
\* SudokuGrid::is_valid_move(r, c, num) on a SudokuGrid whose current is
\* that grid.
C18_SafeIsValidMove ==
  sudoku # None =>
    \A p \in Cells :
      sudoku[1].current[p[1]][p[2]] = 0 =>
        \A num \in 1 .. 9 :
          is_safe(sudoku[1].current, p[1], p[2], num)
            = is_valid_move(sudoku[1], p[1], p[2], num)

\* The player has written to the grid, a cell holds a digit that is not the
\* solution's, and an empty cell has a safe digit and an unsafe one.
C18_EmptyCellAmongDigits ==
  /\ sudoku # None
  /\ ret = Some(TRUE)
  /\ wrong_cells(sudoku[1]) # {}
  /\ \E p \in Cells :
       /\ sudoku[1].current[p[1]][p[2]] = 0
       /\ \E num \in 1 .. 9 : is_safe(sudoku[1].current, p[1], p[2], num)
       /\ \E num \in 1 .. 9 : ~is_safe(sudoku[1].current, p[1], p[2], num)

\* C19: while the state is Solved, a digit key, a clearing key, a cursor key
\* and a mouse click each leave the SudokuGrid, cursor_pos, last_input_valid
\* and state as they are.
C19_SolvedIgnoresInput ==
  [][(/\ state = "Solved"
      /\ \/ \E num \in 1 .. 9 : set_current_cell(num)
         \/ clear_current_cell
         \/ \E d \in {<<-1, 0>>, <<1, 0>>, <<0, -1>>, <<0, 1>>} :
              move_cursor(d[1], d[2])
         \/ \E p \in ClickPoints : handle_mouse_click(p[1], p[2]))
       => UNCHANGED <<sudoku, cursor_pos, last_input_valid, state>>]_vars

\* The puzzle is solved and the cursor stands on a cell that is not fixed,
\* with a cell to move to and the grid drawn to click on.
C19_SolvedOnWritableCell ==
  /\ state = "Solved"
  /\ sudoku # None
  /\ ~is_fixed(sudoku[1], cursor_pos[1], cursor_pos[2])
  /\ grid_screen_rect = Some(centered_grid_rect)
  /\ ~show_solution

\* C20: while the state is Running or Solved no event changes
\* selected_difficulty_index, and the number of fixed cells of the puzzle
\* equals cells_to_keep of the selected difficulty.
C20_DifficultyFixed ==
  /\ [][(state = "Running" \/ state = "Solved") =>
          selected_difficulty_index' = selected_difficulty_index]_vars
  /\ []((state \in {"Running", "Solved"} /\ sudoku # None) =>
          count_fixed(sudoku[1])
            = cells_to_keep(difficulties[selected_difficulty_index + 1]))

\* A puzzle of a difficulty other than the preselected one has been solved.
C20_HardSolved ==
  /\ state = "Solved"
  /\ sudoku # None
  /\ selected_difficulty_index = 2
  /\ count_fixed(sudoku[1]) = 25

\* C21: in every reachable state of the application sudoku is Some exactly
\* when the state is Running or Solved, and None exactly when it is
\* SelectingDifficulty; so set_current_cell and clear_current_cell never
\* find sudoku None in Running.
C21_PuzzleIffGameActive ==
  /\ state \in {"SelectingDifficulty", "Running", "Solved"}
  /\ (sudoku # None) <=> (state = "Running" \/ state = "Solved")
  /\ (sudoku = None) <=> (state = "SelectingDifficulty")

\* The menu is shown again after a game in which the cursor was moved.
C21_BackInMenu ==
  /\ state = "SelectingDifficulty"
  /\ sudoku = None
  /\ cursor_pos # <<0, 0>>

\* C22: after set_current_cell(num) with num in 1..9 on a cursor cell that
\* is not fixed, in state Running, last_input_valid equals is_valid_move of
\* the digit now stored at the cursor, evaluated on the grid after the write,
\* which is what is_valid_move said of it before the write.
C22_ValidityAgreesAfterWrite ==
  [][(/\ state = "Running"
      /\ sudoku # None
      /\ ~is_fixed(sudoku[1], cursor_pos[1], cursor_pos[2])
      /\ \E num \in 1 .. 9 : set_current_cell(num))
       => LET r == cursor_pos[1]
              c == cursor_pos[2]
              stored == sudoku'[1].current[r][c]
          IN /\ stored \in 1 .. 9
             /\ last_input_valid' = is_valid_move(sudoku'[1], r, c, stored)
             /\ is_valid_move(sudoku'[1], r, c, stored)
                  = is_valid_move(sudoku[1], r, c, stored)]_vars

\* A digit that conflicts with another cell has been typed and is stored at
\* the cursor.
C22_ConflictingDigitTyped ==
  /\ state = "Running"
  /\ sudoku # None
  /\ ~last_input_valid
  /\ ~is_fixed(sudoku[1], cursor_pos[1], cursor_pos[2])
  /\ sudoku[1].current[cursor_pos[1]][cursor_pos[2]] # 0
  /\ ~is_valid_move(sudoku[1], cursor_pos[1], cursor_pos[2],
                    sudoku[1].current[cursor_pos[1]][cursor_pos[2]])

\* C23: whenever the state is Solved, last_input_valid is true.
C23_SolvedInputValid ==
  state = "Solved" => last_input_valid

\* An Easy puzzle has been solved and its solution is being looked at.
C23_EasySolvedAndShown ==
  /\ state = "Solved"
  /\ last_input_valid
  /\ show_solution
  /\ selected_difficulty_index = 0

\* C24: cursor_pos stays inside the grid after every move_cursor and
\* handle_mouse_click; a cursor key in Running moves one coordinate by one
\* modulo SIZE, so -1 from row or column 0 lands on 8 and +1 from 8 lands
\* on 0; and move_cursor(d, 0) followed by move_cursor(-d, 0) puts the
\* cursor back, as does move_cursor(0, d) followed by move_cursor(0, -d).
C24_CursorInGrid ==
  /\ [](/\ cursor_pos \in Idx \X Idx
        /\ \A d \in {-1, 1} :
             /\ moved_pos(moved_pos(cursor_pos, d, 0), -d, 0) = cursor_pos
             /\ moved_pos(moved_pos(cursor_pos, 0, d), 0, -d) = cursor_pos)
  /\ [][(state = "Running") =>
          \A d \in {<<-1, 0>>, <<1, 0>>, <<0, -1>>, <<0, 1>>} :
            move_cursor(d[1], d[2]) =>
              cursor_pos' = <<(cursor_pos[1] + d[1] + SIZE) % SIZE,
                              (cursor_pos[2] + d[2] + SIZE) % SIZE>>]_vars

\* The cursor stands on the last cell of the grid during a game.
C24_CursorOnLastCell ==
  /\ state = "Running"
  /\ cursor_pos = <<SIZE - 1, SIZE - 1>>
  /\ grid_screen_rect # None

\* C25: selected_difficulty_index is 0, 1 or 2 in every reachable state, so
\* start_game indexes difficulties within bounds; move_difficulty_selection
\* moves it by one modulo 3, so -1 from 0 gives 2 and +1 from 2 gives 0.
C25_DifficultyIndexInRange ==
  /\ [](/\ selected_difficulty_index \in 0 .. (Len(difficulties) - 1)
        /\ difficulties[selected_difficulty_index + 1] \in Difficulty)
  /\ [][(state = "SelectingDifficulty") =>
          \A delta \in {-1, 1} :
            move_difficulty_selection(delta) =>
              selected_difficulty_index'
                = (selected_difficulty_index + delta + 3) % 3]_vars

\* A game of the first difficulty has just been started.
C25_EasyStarted ==
  /\ state = "Running"
  /\ sudoku # None
  /\ selected_difficulty_index = 0
  /\ untouched(sudoku[1])
  /\ count_fixed(sudoku[1]) = cells_to_keep("Easy")

====
